---- MODULE Spec2Model ----
(***************************************************************************)
(* QRScan: the orchestrator QRCodeAgent.scan_pdf (qrscan/agent.py), the    *)
(* symbol decoder loop extract_qr_codes (qrscan/qr_decoder.py) and the URL *)
(* risk classifier (qrscan/url_checker.py): check_url_virustotal and       *)
(* is_url_suspicious_heuristic.                                            *)
(*                                                                         *)
(* Python strings are sequences of one-character strings.  An optional     *)
(* value (None or a value) is a record [some |-> BOOLEAN, ...].            *)
(***************************************************************************)
EXTENDS Integers, Sequences, FiniteSets, TLC

VARIABLES
    api_key,      \* QRCodeAgent.virus_total_api_key (Optional[str])
    images,       \* what detectAndDecode yields for each page image, in page order
    qr_results,   \* the list extract_qr_codes returned
    idx,          \* position of the for loop of scan_pdf in qr_results (1-based)
    results,      \* the list scan_pdf builds
    pc,           \* position in scan_pdf: "extract", "loop", "done"; "aborted" by an exception
    resp,         \* outcome of the last requests.post of check_url_virustotal
    trace,        \* per loop iteration: how many outbound calls and heuristic calls it made
    output_format,  \* QRCodeAgent.output_format
    output_path,    \* the output_path given to QRCodeAgent.save_results
    format,         \* the local variable format of result_writer.save_results
    fs,             \* what the file at output_path holds
    wpc             \* position in QRCodeAgent.save_results and result_writer.save_results

wvars == <<output_format, output_path, format, fs, wpc>>

vars == <<api_key, images, qr_results, idx, results, pc, resp, trace, wvars>>

(***************************************************************************)
(* Bounds of the model.                                                    *)
(***************************************************************************)
MaxPages == 2     \* pages of a scanned document
MaxCount == 2     \* largest engine count in a reputation response
MaxFree == 4      \* length of the exhaustively enumerated candidate strings
MaxExtra == 1     \* candidate lengths reach Threshold - MaxExtra .. Threshold + MaxExtra

(***************************************************************************)
(* Program constants.                                                      *)
(***************************************************************************)
PercentLen == 100   \* len(url) > 100 together with "%"
LongLen == 200      \* len(url) > 200

(***************************************************************************)
(* str primitives.                                                         *)
(***************************************************************************)
Upper == <<"A", "B", "C", "D", "E", "F", "G", "H", "I", "J", "K", "L", "M", "N", "O", "P", "Q", "R", "S", "T", "U", "V", "W", "X", "Y", "Z">>
LowerC == <<"a", "b", "c", "d", "e", "f", "g", "h", "i", "j", "k", "l", "m", "n", "o", "p", "q", "r", "s", "t", "u", "v", "w", "x", "y", "z">>
Digits == {"0", "1", "2", "3", "4", "5", "6", "7", "8", "9"}
Letters == {Upper[k] : k \in 1..26} \cup {LowerC[k] : k \in 1..26}

\* str.lower() on one character
lower_char(c) ==
    IF \E k \in 1..26 : Upper[k] = c
    THEN LowerC[CHOOSE k \in 1..26 : Upper[k] = c]
    ELSE c

\* str.lower()
lower(s) == [k \in 1..Len(s) |-> lower_char(s[k])]

\* sub in s
Contains(s, sub) ==
    \E k \in 1..(Len(s) - Len(sub) + 1) : SubSeq(s, k, k + Len(sub) - 1) = sub

\* s.find(c, start), 1-based; 0 when c does not occur at or after start
Find(s, c, start) ==
    IF \E k \in start..Len(s) : s[k] = c
    THEN CHOOSE k \in start..Len(s) : s[k] = c /\ \A j \in start..(k - 1) : s[j] # c
    ELSE 0

\* s.rfind(c), 1-based; 0 when c does not occur
RFind(s, c) ==
    IF \E k \in 1..Len(s) : s[k] = c
    THEN CHOOSE k \in 1..Len(s) : s[k] = c /\ \A j \in (k + 1)..Len(s) : s[j] # c
    ELSE 0

\* s[from:] with a 1-based first position
Tail_(s, from) == SubSeq(s, from, Len(s))

(***************************************************************************)
(* urllib.parse.urlparse as is_url_suspicious_heuristic uses it: the       *)
(* netloc of the result, or the ValueError it raises.  Candidates here     *)
(* carry no leading blank, no tab or newline and no non-ASCII character,   *)
(* so the stripping and the NFKC check of urlsplit have nothing to do.     *)
(***************************************************************************)
scheme_chars == Letters \cup Digits \cup {"+", "-", "."}

\* the url left after urlsplit has taken the scheme off
AfterScheme(url) ==
    LET i == Find(url, ":", 1)
    IN  IF /\ i > 1
           /\ url[1] \in Letters
           /\ \A k \in 1..(i - 1) : url[k] \in scheme_chars
        THEN Tail_(url, i + 1)
        ELSE url

\* _splitnetloc(url, 2): the text between "//" and the first of "/", "?", "#"
splitnetloc(url) ==
    LET ends == {Find(url, c, 3) : c \in {"/", "?", "#"}} \ {0}
        delim == IF ends = {} THEN Len(url) + 1
                 ELSE CHOOSE e \in ends : \A f \in ends : e <= f
    IN  SubSeq(url, 3, delim - 1)

urlparse(url) ==
    LET rest == AfterScheme(url)
        hasNetloc == Len(rest) >= 2 /\ SubSeq(rest, 1, 2) = <<"/", "/">>
        netloc == IF hasNetloc THEN splitnetloc(rest) ELSE <<>>
        open == Contains(netloc, <<"[">>)
        close == Contains(netloc, <<"]">>)
    IN  [raised |-> hasNetloc /\ ((open /\ ~close) \/ (close /\ ~open)),
         netloc |-> netloc]

(***************************************************************************)
(* is_url_suspicious_heuristic                                             *)
(***************************************************************************)
suspicious_tlds ==
    { <<".", "r", "u">>, <<".", "c", "n">>, <<".", "t", "k">>, <<".", "m", "l">>,
      <<".", "g", "a">>, <<".", "c", "f">>, <<".", "g", "q">> }

risky_keywords ==
    { <<"l", "o", "g", "i", "n">>, <<"s", "i", "g", "n", "i", "n">>,
      <<"p", "a", "s", "s", "w", "o", "r", "d">>, <<"b", "a", "n", "k">>,
      <<"p", "a", "y", "p", "a", "l">>, <<"b", "i", "t", "c", "o", "i", "n">> }

\* re.match(r'^\d+\.\d+\.\d+\.\d+$', s): digits and exactly three dots, a
\* digit before and after each dot
re_match_ip(s) ==
    /\ Cardinality({k \in 1..Len(s) : s[k] = "."}) = 3
    /\ \A k \in 1..Len(s) :
          IF s[k] = "."
          THEN k > 1 /\ k < Len(s) /\ s[k - 1] \in Digits /\ s[k + 1] \in Digits
          ELSE s[k] \in Digits

\* faulty variant of heuristic_except: the handler returns False
heuristic_except_false == FALSE

\* except Exception: return True
heuristic_except == TRUE

\* "%" in url and len(url) > 100
percent_rule(url) == Contains(url, <<"%">>) /\ Len(url) > PercentLen

\* len(url) > 200
long_rule(url) == Len(url) > LongLen

\* faulty variant of tld_rule: domain.endswith(tld) for tld in domain
tld_rule_suffix(domain) ==
    \E tld \in suspicious_tlds :
        Len(domain) >= Len(tld) /\ SubSeq(domain, Len(domain) - Len(tld) + 1, Len(domain)) = tld

\* any(tld in domain for tld in suspicious_tlds)
tld_rule(domain) == \E tld \in suspicious_tlds : Contains(domain, tld)

\* any(keyword in url.lower() for keyword in risky_keywords)
keyword_rule(url) == \E keyword \in risky_keywords : Contains(lower(url), keyword)

is_url_suspicious_heuristic(url) ==
    LET parsed == urlparse(url)
        domain == lower(parsed.netloc)
    IN  IF parsed.raised THEN heuristic_except
        ELSE IF tld_rule(domain) THEN TRUE
        ELSE IF re_match_ip(domain) THEN TRUE
        ELSE IF keyword_rule(url) THEN TRUE
        ELSE IF percent_rule(url) THEN TRUE
        ELSE IF long_rule(url) THEN TRUE
        ELSE FALSE

(***************************************************************************)
(* JSON values as resp.json() returns them.  tag is the Python type of the *)
(* value: "dict", "list", "str", "NoneType", "int", "float", "bool".  num  *)
(* is the value of an int or a bool, and ten times the value of a float;   *)
(* obj is the <<key, value>> pairs of a dict.                              *)
(***************************************************************************)
JObj(pairs) == [tag |-> "dict", num |-> 0, obj |-> pairs]
JInt(n) == [tag |-> "int", num |-> n, obj |-> <<>>]
JFloat(tenths) == [tag |-> "float", num |-> tenths, obj |-> <<>>]
JBool(b) == [tag |-> "bool", num |-> b, obj |-> <<>>]
JNull == [tag |-> "NoneType", num |-> 0, obj |-> <<>>]
JStr == [tag |-> "str", num |-> 0, obj |-> <<>>]
JArr == [tag |-> "list", num |-> 0, obj |-> <<>>]
EmptyDict == JObj(<<>>)

\* the result of evaluating an expression: a value, or an exception raised
Value(v) == [raised |-> FALSE, val |-> v]
Raised == [raised |-> TRUE, val |-> JNull]

HasKey(d, key) == \E k \in 1..Len(d.obj) : d.obj[k][1] = key
Lookup(d, key) == d.obj[CHOOSE k \in 1..Len(d.obj) : d.obj[k][1] = key][2]

\* faulty variant of dict_get: d[key], KeyError on a missing key
dict_get_strict(r, key, default) ==
    IF r.raised THEN Raised
    ELSE IF r.val.tag # "dict" THEN Raised
    ELSE IF HasKey(r.val, key) THEN Value(Lookup(r.val, key))
    ELSE Raised

\* r.get(key, default): AttributeError when r is no dict
dict_get(r, key, default) ==
    IF r.raised THEN Raised
    ELSE IF r.val.tag # "dict" THEN Raised
    ELSE IF HasKey(r.val, key) THEN Value(Lookup(r.val, key))
    ELSE Value(default)

\* faulty variant of greater_than_zero: malicious_count >= 0
greater_or_equal_zero(r) ==
    IF r.raised THEN Raised
    ELSE IF r.val.tag \in {"int", "float", "bool"}
         THEN Value(JBool(IF r.val.num >= 0 THEN 1 ELSE 0))
         ELSE Raised

\* malicious_count > 0: TypeError unless malicious_count is a number
greater_than_zero(r) ==
    IF r.raised THEN Raised
    ELSE IF r.val.tag \in {"int", "float", "bool"}
         THEN Value(JBool(IF r.val.num > 0 THEN 1 ELSE 0))
         ELSE Raised

(***************************************************************************)
(* What one requests.post can come to: an exception (no connection, the    *)
(* timeout of 10), or a response with a status and a body that parses as   *)
(* JSON or does not.                                                       *)
(***************************************************************************)
PostRaises(kind) == [kind |-> kind, status |-> 0, json |-> FALSE, body |-> JNull]
Response(status, body) == [kind |-> "response", status |-> status, json |-> TRUE, body |-> body]
ResponseNotJson(status) == [kind |-> "response", status |-> status, json |-> FALSE, body |-> JNull]
NoResp == [kind |-> "none", status |-> 0, json |-> FALSE, body |-> JNull]

\* faulty variant of raise_for_status: only server errors raise
raise_for_status_5xx(o) == 500 <= o.status /\ o.status < 600

\* resp.raise_for_status(): requests raises HTTPError for 400 <= status_code < 600
raise_for_status(o) == 400 <= o.status /\ o.status < 600

\* lines 27-31: the value of malicious_count > 0, or the exception raised on the way
try_body(o) ==
    IF o.kind # "response" THEN Raised          \* requests.post raises
    ELSE IF raise_for_status(o) THEN Raised
    ELSE IF ~o.json THEN Raised                 \* resp.json() raises
    ELSE greater_than_zero(
             dict_get(dict_get(dict_get(dict_get(Value(o.body), "data", EmptyDict),
                 "attributes", EmptyDict), "last_analysis_stats", EmptyDict),
                 "malicious", JInt(0)))

\* faulty variant of check_url_virustotal: only requests' own exceptions are
\* caught (except requests.RequestException), the others reach the caller
check_url_virustotal_narrow(url, key, o) ==
    LET r == try_body(o)
    IN  IF r.raised
        THEN [raised |-> o.kind = "response" /\ ~raise_for_status(o) /\ o.json,
              malicious |-> FALSE, source |-> "Error"]
        ELSE [raised |-> FALSE, malicious |-> (r.val.num = 1), source |-> "VirusTotal"]

\* check_url_virustotal(url, api_key), the post coming to outcome o; raised
\* tells whether an exception leaves the function
check_url_virustotal(url, key, o) ==
    LET r == try_body(o)
    IN  IF r.raised
        THEN [raised |-> FALSE, malicious |-> FALSE, source |-> "Error"]    \* except Exception
        ELSE [raised |-> FALSE, malicious |-> (r.val.num = 1), source |-> "VirusTotal"]

None == [some |-> FALSE, s |-> <<>>]
Some(x) == [some |-> TRUE, s |-> x]

(***************************************************************************)
(* The inputs: reputation responses, candidate strings, pages, API keys.   *)
(***************************************************************************)
Counts == (-1)..MaxCount
Leaves == {JNull, JStr, JArr, JBool(0), JBool(1), JFloat(5), EmptyDict} \cup {JInt(n) : n \in Counts}
NonDict == {JNull, JStr, JArr, JInt(1)}
Under(key, values) == {JObj(<< <<key, v>> >>) : v \in values}
StatsValues == {EmptyDict, JObj(<< <<"harmless", JInt(3)>> >>)} \cup Under("malicious", Leaves)
AttributesValues == {EmptyDict} \cup Under("last_analysis_stats", NonDict \cup StatsValues)
DataValues == {EmptyDict} \cup Under("attributes", NonDict \cup AttributesValues)
Bodies == NonDict \cup {EmptyDict} \cup Under("data", NonDict \cup DataValues)

\* the body {data: {attributes: {last_analysis_stats: {malicious: v}}}}
WellShaped(v) ==
    JObj(<< <<"data", JObj(<< <<"attributes", JObj(<< <<"last_analysis_stats",
        JObj(<< <<"malicious", v>> >>)>> >>)>> >>)>> >>)

FewBodies == {WellShaped(JInt(0)), WellShaped(JInt(1)), EmptyDict}

Outcomes ==
    {PostRaises("ConnectionError"), PostRaises("Timeout")}
    \cup {Response(200, b) : b \in Bodies} \cup {ResponseNotJson(200)}
    \cup {Response(st, b) : st \in {201, 300, 404, 500}, b \in FewBodies}
    \cup {ResponseNotJson(st) : st \in {204, 304, 404, 503}}

Pad(n) == [k \in 1..n |-> "a"]
PadTo(base, n) == base \o Pad(n - Len(base))

S_http == <<"h", "t", "t", "p", ":", "/", "/">>
S_e_co == <<"e", ".", "c", "o">>
S_x_ru == <<"x", ".", "r", "u">>
S_ip == <<"1", "9", "8", ".", "5", "1", ".", "1", "0", "0", ".", "7">>
S_free_text == <<"n", "o", "t", " ", "a", " ", "u", "r", "l", " ", "a", "t", " ", "a", "l", "l">>
S_bracket == <<"h", "t", "t", "p", ":", "/", "/", "[", "a", "b", "c", "/">>
S_user_tld == <<"a", ".", "c", "n", "@">>
S_port == <<":", "8", "0">>

Schemes == {S_http, <<"H", "T", "T", "P", "S", ":", "/", "/">>, <<"/", "/">>, <<>>, <<"h", "t", "t", "p", ":">>}
UserInfos == {<<>>, <<"u", "@">>, S_user_tld}
Hosts ==
    { S_ip, <<"e", ".", "c", "o">>,
      <<"x", ".", "r", "u">>,
      <<"X", ".", "R", "u">>,
      <<"a", ".", "t", "k", ".", "c", "o">>,
      <<"n", "o", "t", "r", "u", ".", "c", "o">>,
      <<"x", ".", "c", "n">>,
      <<"x", ".", "t", "k">>,
      <<"x", ".", "m", "l">>,
      <<"x", ".", "g", "a">>,
      <<"x", ".", "c", "f">>,
      <<"x", ".", "g", "q">>,
      <<"E", ".", "C", "O">> }
    \cup { <<"1", ".", "2", ".", "3", ".", "4">>,
      <<"9", "9", "9", ".", "9", "9", "9", ".", "9", "9", "9", ".", "9", "9", "9">>,
      <<"1", ".", "2", ".", "3">>,
      <<"1", ".", "2", ".", "3", ".", "4", ".", "5">>,
      <<"1", ".", "2", ".", "3", ".", "a">> }
Ports == {<<>>, S_port}
Paths ==
    { <<>>,
      <<"/">>,
      <<"/", "p">>,
      <<"/", "l", "o", "g", "i", "n">>,
      <<"/", "L", "o", "g", "I", "n">>,
      <<"/", "s", "i", "g", "n", "i", "n">>,
      <<"/", "p", "a", "s", "s", "w", "o", "r", "d">>,
      <<"/", "b", "a", "n", "k">>,
      <<"/", "P", "a", "y", "P", "a", "l">>,
      <<"/", "b", "i", "t", "c", "o", "i", "n">>,
      <<"/", "a", "%", "2", "0", "b">>,
      <<"?", "q", "=", "1">>,
      <<"#", "f">> }

\* scheme://userinfo@host:port/path?query#fragment, and the same with parts left out
Built ==
    {s \o u \o h \o p \o t : s \in Schemes, u \in UserInfos, h \in Hosts, p \in Ports, t \in Paths}

\* candidates whose length is at, just under and just over the two thresholds
LongBases ==
    { <<"h", "t", "t", "p", ":", "/", "/", "e", ".", "c", "o", "/">>,
      <<"h", "t", "t", "p", ":", "/", "/", "e", ".", "c", "o", "/", "%">>,
      <<"h", "t", "t", "p", ":", "/", "/", "e", ".", "c", "o", ":", "8", "0", "/", "?", "%">>,
      <<"h", "t", "t", "p", ":", "/", "/", "u", "@", "e", ".", "c", "o", "/">> }
Lengths ==
    {PercentLen - k : k \in 0..MaxExtra} \cup {PercentLen + k : k \in 0..MaxExtra}
    \cup {LongLen - k : k \in 0..MaxExtra} \cup {LongLen + k : k \in 0..MaxExtra}
Long == {PadTo(b, n) : b \in LongBases, n \in Lengths}

\* every non-empty string of at most MaxFree characters over a small alphabet
FreeAlphabet == {"a", ":", "/", "[", ".", "1"}
Free == UNION {[1..n -> FreeAlphabet] : n \in 1..MaxFree}

Urls == Built \cup Long \cup Free \cup {S_free_text, S_bracket}

\* the candidates of the scans with several pages: benign, denylisted TLD, unparsable
ScanTexts == {S_http \o S_e_co, S_http \o S_x_ru, S_bracket}

Quads ==
    { << <<30, 40>>, <<135, 52>>, <<128, 159>>, <<21, 140>> >>,
      << <<0, 0>>, <<100, 0>>, <<100, 100>>, <<0, 100>> >> }

\* what detectAndDecode returns for a page: nothing found, a symbol found
\* but not decoded, a symbol decoded
PageOutcomes(texts) ==
    {[data |-> <<>>, bbox |-> None]}
    \cup {[data |-> <<>>, bbox |-> Some(CHOOSE q \in Quads : TRUE)]}
    \cup {[data |-> d, bbox |-> Some(q)] : d \in texts, q \in Quads}

Keys == {None, Some(<<>>), Some(<<"k">>)}

(***************************************************************************)
(* extract_qr_codes                                                        *)
(***************************************************************************)
\* the i-th coordinates (1 = x, 2 = y) of the corner points after
\* bbox.astype(int); the points are kept in tenths of a pixel
Coords(pts, i) == {pts[k][i] \div 10 : k \in 1..Len(pts)}
SetMin(S) == CHOOSE m \in S : \A n \in S : m <= n
SetMax(S) == CHOOSE m \in S : \A n \in S : m >= n

\* lines 37-49: the "bbox" entry of a result
bbox_of(pts) ==
    [x |-> SetMin(Coords(pts, 1)),
     y |-> SetMin(Coords(pts, 2)),
     width |-> SetMax(Coords(pts, 1)) - SetMin(Coords(pts, 1)),
     height |-> SetMax(Coords(pts, 2)) - SetMin(Coords(pts, 2))]

\* the loop of extract_qr_codes from the k-th image on; imgs[k] is the
\* (data, bbox) that detectAndDecode returns for the k-th image
RECURSIVE extract_from(_, _)
extract_from(imgs, k) ==
    IF k > Len(imgs) THEN <<>>
    ELSE (IF Len(imgs[k].data) > 0 /\ imgs[k].bbox.some
          THEN << [page |-> (k - 1) + 1,
                   qr_text |-> Some(imgs[k].data),
                   bbox |-> bbox_of(imgs[k].bbox.s)] >>
          ELSE <<>>)
         \o extract_from(imgs, k + 1)

extract_qr_codes(imgs) == extract_from(imgs, 1)

(***************************************************************************)
(* QRCodeAgent.scan_pdf                                                    *)
(***************************************************************************)
\* if self.virus_total_api_key: None and "" are false
truthy(key) == key.some /\ Len(key.s) > 0

\* faulty variant of validate: the heuristic decides when the lookup fails
validate_fallback(content, key, o) ==
    IF truthy(key)
    THEN LET v == check_url_virustotal(content, key.s, o)
         IN  IF v.source = "Error"
             THEN [raised |-> v.raised, malicious |-> is_url_suspicious_heuristic(content),
                   source |-> "heuristic", post |-> 1, heur |-> 1]
             ELSE [raised |-> v.raised, malicious |-> v.malicious, source |-> v.source,
                   post |-> 1, heur |-> 0]
    ELSE [raised |-> FALSE, malicious |-> is_url_suspicious_heuristic(content),
          source |-> "heuristic", post |-> 0, heur |-> 1]

\* lines 62-66: malicious and source of one candidate, with the number of
\* requests.post calls and of is_url_suspicious_heuristic calls made for it
validate(content, key, o) ==
    IF truthy(key)
    THEN LET v == check_url_virustotal(content, key.s, o)
         IN  [raised |-> v.raised, malicious |-> v.malicious, source |-> v.source,
              post |-> 1, heur |-> 0]
    ELSE [raised |-> FALSE, malicious |-> is_url_suspicious_heuristic(content),
          source |-> "heuristic", post |-> 0, heur |-> 1]

\* lines 67-73: results.append({...})
append_result(res, qr, v) ==
    Append(res, [page |-> qr.page, bbox |-> qr.bbox, qr_content |-> qr.qr_text.s,
                 malicious |-> v.malicious, source |-> v.source])

F_json == <<"j", "s", "o", "n">>
F_sqlite == <<"s", "q", "l", "i", "t", "e">>
E_sqlite == <<".", "s", "q", "l", "i", "t", "e">>
E_db == <<".", "d", "b">>

\* the file at output_path: not written, or written as JSON text or as the
\* table qr_scan_results of a database, holding the rows given
NoFile == [kind |-> "none", rows |-> <<>>]
File(kind, rows) == [kind |-> kind, rows |-> rows]

\* step 2 of scan_pdf: qr_results = qr_decoder.extract_qr_codes(images)
Extract ==
    /\ pc = "extract"
    /\ qr_results' = extract_qr_codes(images)
    /\ idx' = 1
    /\ pc' = "loop"
    /\ UNCHANGED <<api_key, images, results, resp, trace, wvars>>

\* one iteration of the for loop with v what lines 62-66 come to: an
\* exception that leaves them leaves scan_pdf, which has no handler
Iterate(qr, v) ==
    /\ IF v.raised
       THEN /\ pc' = "aborted"
            /\ UNCHANGED <<results, trace, idx>>
       ELSE /\ results' = append_result(results, qr, v)
            /\ trace' = Append(trace, [post |-> v.post, heur |-> v.heur])
            /\ idx' = idx + 1
            /\ pc' = pc
    /\ UNCHANGED <<api_key, images, qr_results>>

\* one iteration of the for loop when no API key is set
ScanHeuristic ==
    /\ pc = "loop"
    /\ idx <= Len(qr_results)
    /\ ~truthy(api_key)
    /\ IF ~qr_results[idx].qr_text.some
       THEN /\ idx' = idx + 1                      \* content is None: continue
            /\ UNCHANGED <<api_key, images, qr_results, pc, results, trace>>
       ELSE Iterate(qr_results[idx], validate(qr_results[idx].qr_text.s, api_key, NoResp))
    /\ UNCHANGED <<resp, wvars>>

\* one iteration of the for loop when an API key is set; the post comes to o
ScanVirusTotal ==
    /\ pc = "loop"
    /\ idx <= Len(qr_results)
    /\ truthy(api_key)
    /\ IF ~qr_results[idx].qr_text.some
       THEN /\ idx' = idx + 1                      \* content is None: continue
            /\ UNCHANGED <<api_key, images, qr_results, pc, results, trace, resp>>
       ELSE \E o \in Outcomes :
                /\ resp' = o
                /\ Iterate(qr_results[idx], validate(qr_results[idx].qr_text.s, api_key, o))
    /\ UNCHANGED wvars

\* the loop is over: return results
Return ==
    /\ pc = "loop"
    /\ idx > Len(qr_results)
    /\ pc' = "done"
    /\ UNCHANGED <<api_key, images, qr_results, idx, results, resp, trace, wvars>>

\* scan_pdf entered with images == pdf_to_images(pdf_path)
InitWith(texts, keys, pages) ==
    /\ api_key \in keys
    /\ images \in UNION {[1..n -> PageOutcomes(texts)] : n \in 0..pages}
    /\ qr_results = <<>>
    /\ idx = 1
    /\ results = <<>>
    /\ pc = "extract"
    /\ resp = NoResp
    /\ trace = <<>>
    /\ output_format = Some(F_json)       \* output_format: str = "json"
    /\ output_path = <<>>
    /\ format = None
    /\ fs = NoFile
    /\ wpc = "idle"

Init == InitWith(ScanTexts, Keys, MaxPages)

Next == Extract \/ ScanHeuristic \/ ScanVirusTotal \/ Return

Spec == Init /\ [][Next]_vars

\* the agent without an API key, on documents of at most one page whose
\* symbol carries any of the candidate strings
HInit == InitWith(Urls, {None}, 1)

HNext == Extract \/ ScanHeuristic \/ Return

HSpec == HInit /\ [][HNext]_vars

(***************************************************************************)
(* result_writer.save_results and QRCodeAgent.save_results                 *)
(***************************************************************************)
\* os.path.splitext(p)[1]: from the last dot of the last path component on,
\* unless only dots come before it in that component
splitext_ext(p) ==
    LET sepIndex == RFind(p, "/")
        dotIndex == RFind(p, ".")
    IN  IF /\ dotIndex > sepIndex
           /\ \E k \in (sepIndex + 1)..(dotIndex - 1) : p[k] # "."
        THEN Tail_(p, dotIndex)
        ELSE <<>>

\* faulty variant of infer_format: every format but "sqlite" is inferred
infer_format_lenient(fmt, ext) ==
    IF ~fmt.some \/ fmt.s # F_sqlite
    THEN (IF ext = E_sqlite \/ ext = E_db THEN Some(F_sqlite) ELSE Some(F_json))
    ELSE fmt

\* lines 23-27: format after the inference from the extension
infer_format(fmt, ext) ==
    IF ~fmt.some \/ fmt.s = F_json
    THEN (IF ext = E_sqlite \/ ext = E_db THEN Some(F_sqlite) ELSE Some(F_json))
    ELSE fmt

\* QRCodeAgent.save_results, line 86: result_writer.save_results is called
\* with self.output_format
AgentSaveResults ==
    /\ wpc = "idle"
    /\ pc = "done"
    /\ format' = output_format
    /\ wpc' = "infer"
    /\ UNCHANGED <<output_format, output_path, fs>>
    /\ UNCHANGED <<api_key, images, qr_results, idx, results, pc, resp, trace>>

\* result_writer.save_results, lines 22-27
InferFormat ==
    /\ wpc = "infer"
    /\ format' = infer_format(format, lower(splitext_ext(output_path)))
    /\ wpc' = "dispatch"
    /\ UNCHANGED <<output_format, output_path, fs>>
    /\ UNCHANGED <<api_key, images, qr_results, idx, results, pc, resp, trace>>

\* lines 29-31: json.dump(data, f, indent=2)
WriteJson ==
    /\ wpc = "dispatch"
    /\ format = Some(F_json)
    /\ fs' = File("json", results)
    /\ wpc' = "returned"
    /\ UNCHANGED <<output_format, output_path, format>>
    /\ UNCHANGED <<api_key, images, qr_results, idx, results, pc, resp, trace>>

\* lines 32-34: df.to_sql('qr_scan_results', ..., if_exists='replace')
WriteSqlite ==
    /\ wpc = "dispatch"
    /\ format # Some(F_json)
    /\ format = Some(F_sqlite)
    /\ fs' = File("sqlite", results)
    /\ wpc' = "returned"
    /\ UNCHANGED <<output_format, output_path, format>>
    /\ UNCHANGED <<api_key, images, qr_results, idx, results, pc, resp, trace>>

\* lines 35-36: raise ValueError(f"Unsupported format: {format}")
RaiseUnsupported ==
    /\ wpc = "dispatch"
    /\ format # Some(F_json)
    /\ format # Some(F_sqlite)
    /\ wpc' = "writer_raised"
    /\ UNCHANGED <<output_format, output_path, format, fs>>
    /\ UNCHANGED <<api_key, images, qr_results, idx, results, pc, resp, trace>>

\* QRCodeAgent.save_results, line 87, after the writer returned
AgentReturn ==
    /\ wpc = "returned"
    /\ wpc' = "saved"
    /\ UNCHANGED <<output_format, output_path, format, fs>>
    /\ UNCHANGED <<api_key, images, qr_results, idx, results, pc, resp, trace>>

\* QRCodeAgent.save_results has no handler around line 86: the ValueError
\* leaves it for its caller
AgentPropagate ==
    /\ wpc = "writer_raised"
    /\ wpc' = "caller_raised"
    /\ UNCHANGED <<output_format, output_path, format, fs>>
    /\ UNCHANGED <<api_key, images, qr_results, idx, results, pc, resp, trace>>

\* the values given for output_format: None, the two formats, and others
OtherFormats ==
    { <<"J", "S", "O", "N">>,
      <<"c", "s", "v">>,
      <<"d", "b">>,
      <<".", "j", "s", "o", "n">>,
      <<"x", "m", "l">>, <<>> }
Formats == {None, Some(F_json), Some(F_sqlite)} \cup {Some(f) : f \in OtherFormats}

OutputPaths ==
    { <<"r", "e", "s", "u", "l", "t", "s", ".", "j", "s", "o", "n">>,
      <<"o", "u", "t", ".", "d", "b">>,
      <<"o", "u", "t", ".", "D", "B">>,
      <<"o", "u", "t", ".", "s", "q", "l", "i", "t", "e">>,
      <<"o", ".", "S", "Q", "L", "i", "t", "e">>,
      <<"o", "u", "t">>,
      <<"o", "u", "t", ".", "t", "x", "t">>,
      <<"o", "u", "t", ".", "c", "s", "v">>,
      <<".", "d", "b">>,
      <<"a", ".", "d", "b", "/", "o", "u", "t">>,
      <<"o", "u", "t", ".", "d", "b", ".", "j", "s", "o", "n">>,
      <<"o", "u", "t", ".", "j", "s", "o", "n", ".", "d", "b">>,
      <<"d", "/", "r", ".", "j", "s", "o", "n">>,
      <<"o", "u", "t", ".">>,
      <<"o", ".", "s", "q", "l", "i", "t", "e", "3">> }

\* the records scan_pdf returns without an API key for the symbols qrs
RECURSIVE heuristic_results(_, _)
heuristic_results(qrs, k) ==
    IF k = 0 THEN <<>>
    ELSE append_result(heuristic_results(qrs, k - 1), qrs[k],
                       validate(qrs[k].qr_text.s, None, NoResp))

\* a scan of a document of at most one page has returned; save_results is
\* about to be called on an agent made with any output_format
WInit ==
    /\ api_key = None
    /\ images \in UNION {[1..n -> PageOutcomes(ScanTexts)] : n \in 0..1}
    /\ qr_results = extract_qr_codes(images)
    /\ idx = Len(qr_results) + 1
    /\ results = heuristic_results(qr_results, Len(qr_results))
    /\ pc = "done"
    /\ resp = NoResp
    /\ trace = [k \in 1..Len(qr_results) |-> [post |-> 0, heur |-> 1]]
    /\ output_format \in Formats
    /\ output_path \in OutputPaths
    /\ format = None
    /\ fs = NoFile
    /\ wpc = "idle"

WNext ==
    \/ AgentSaveResults \/ InferFormat \/ WriteJson \/ WriteSqlite
    \/ RaiseUnsupported \/ AgentReturn \/ AgentPropagate

WSpec == WInit /\ [][WNext]_vars

(***************************************************************************)
(* What the properties speak of.                                           *)
(***************************************************************************)
Last(seq) == seq[Len(seq)]

\* a lookup was made and its verdict is the last record of results
Looked == resp.kind # "none" /\ Len(results) > 0

Is2xx(o) == o.kind = "response" /\ 200 <= o.status /\ o.status <= 299

ErrorVerdict(r) == r.malicious = FALSE /\ r.source = "Error"

\* where the path data.attributes.last_analysis_stats.malicious ends in a
\* body: at the value ("found"), at a level that lacks the next key
\* ("missing"), or at a level that is not an object ("notdict")
RECURSIVE Walk(_, _)
Walk(v, keys) ==
    IF keys = <<>> THEN [st |-> "found", v |-> v]
    ELSE IF v.tag # "dict" THEN [st |-> "notdict", v |-> JNull]
    ELSE IF ~HasKey(v, Head(keys)) THEN [st |-> "missing", v |-> JNull]
    ELSE Walk(Lookup(v, Head(keys)), Tail(keys))

CountPath == <<"data", "attributes", "last_analysis_stats", "malicious">>
AtCount(o) == Walk(o.body, CountPath)
IsNumber(v) == v.tag \in {"int", "float", "bool"}

\* the host component of a parsed URL (ParseResult.hostname): the netloc
\* without the user information and the port, in lower case
hostname(url) ==
    LET netloc == urlparse(url).netloc
        hostinfo == Tail_(netloc, RFind(netloc, "@") + 1)
        colon == Find(hostinfo, ":", 1)
    IN  lower(IF colon = 0 THEN hostinfo ELSE SubSeq(hostinfo, 1, colon - 1))

Parses(url) == ~urlparse(url).raised
HostHasTld(url) == \E tld \in suspicious_tlds : Contains(hostname(url), tld)
HostIsIp(url) == re_match_ip(hostname(url))
HasKeyword(url) == \E keyword \in risky_keywords : Contains(lower(url), keyword)
HasPercent(url) == \E k \in 1..Len(url) : url[k] = "%"

\* scheme://[userinfo@]host[:port][path]
WellFormed ==
    {s \o u \o h \o p \o t : s \in {S_http}, u \in UserInfos, h \in Hosts, p \in Ports, t \in Paths}
    \cup Long

\* free text: no scheme and no host
NoSchemeNoHost(url) == Parses(url) /\ AfterScheme(url) = url /\ urlparse(url).netloc = <<>>

Configured == api_key.some /\ api_key.s # <<>>

\* the pages whose symbol was decoded, and the j-th of them
DecodedPages == {k \in 1..Len(images) : images[k].data # <<>> /\ images[k].bbox.some}
NthDecoded(j) == CHOOSE k \in DecodedPages : Cardinality({m \in DecodedPages : m < k}) = j - 1

C2_ExactlyOnePath ==
    /\ Len(trace) = Len(results)
    /\ \A k \in 1..Len(trace) :
          IF Configured
          THEN /\ trace[k].post = 1 /\ trace[k].heur = 0
               /\ results[k].source \in {"VirusTotal", "Error"}
          ELSE /\ trace[k].post = 0 /\ trace[k].heur = 1
               /\ results[k].source = "heuristic"

C2_Witness ==
    /\ Configured
    /\ Looked /\ resp.kind = "Timeout"
    /\ Last(results).source = "Error"
    /\ Last(trace).heur = 0

(***************************************************************************)
(* C3, as stated: a 2xx response whose body is not JSON or lacks a field   *)
(* of the shape data.attributes.last_analysis_stats.malicious (an integer) *)
(* gives malicious = false, source "Error".                                *)
(***************************************************************************)
C3_MalformedBodyIsError ==
    (Looked /\ Is2xx(resp)
        /\ (~resp.json \/ AtCount(resp).st # "found" \/ AtCount(resp).v.tag # "int"))
        => ErrorVerdict(Last(results))

(***************************************************************************)
(* C3, amended: on a 2xx response, a body that is not JSON, a level of the *)
(* path that is present but no object, or a malicious value that is        *)
(* present but no number gives malicious = false, source "Error"; a key    *)
(* of the path that is absent gives malicious = false with the source      *)
(* "VirusTotal".                                                           *)
(***************************************************************************)
C3_MissingFieldIsClean ==
    (Looked /\ Is2xx(resp)) =>
        /\ ~resp.json => ErrorVerdict(Last(results))
        /\ (resp.json /\ AtCount(resp).st = "notdict") => ErrorVerdict(Last(results))
        /\ (resp.json /\ AtCount(resp).st = "found" /\ ~IsNumber(AtCount(resp).v))
              => ErrorVerdict(Last(results))
        /\ (resp.json /\ AtCount(resp).st = "missing")
              => (Last(results).malicious = FALSE /\ Last(results).source = "VirusTotal")

C3_Witness ==
    /\ Looked /\ Is2xx(resp) /\ resp.json
    /\ resp.body = JObj(<< <<"data", EmptyDict>> >>)
    /\ Last(results).malicious = FALSE /\ Last(results).source = "VirusTotal"

(***************************************************************************)
(* C4: a 2xx response with a well-shaped body carrying an integer count    *)
(* gives malicious = (count > 0) with the source "VirusTotal".             *)
(***************************************************************************)
C4_CountDecides ==
    (Looked /\ Is2xx(resp) /\ resp.json
        /\ AtCount(resp).st = "found" /\ AtCount(resp).v.tag = "int")
        => /\ Last(results).source = "VirusTotal"
           /\ Last(results).malicious = (AtCount(resp).v.num > 0)

C4_Witness ==
    /\ Looked /\ Is2xx(resp) /\ resp.json
    /\ AtCount(resp).st = "found" /\ AtCount(resp).v = JInt(0)
    /\ Last(results).source = "VirusTotal" /\ Last(results).malicious = FALSE

(***************************************************************************)
(* C5: a candidate whose host contains one of the denylisted TLDs, in any  *)
(* letter case and at any position of the host, is found malicious by the  *)
(* heuristic.                                                              *)
(***************************************************************************)
C5_TldInHostIsFlagged ==
    \A k \in 1..Len(results) :
        (results[k].source = "heuristic" /\ HostHasTld(results[k].qr_content))
            => results[k].malicious = TRUE

C5_Witness ==
    /\ Len(results) = 1
    /\ results[1].qr_content = S_http \o <<"a", ".", "t", "k", ".", "c", "o">> \o S_port
    /\ results[1].source = "heuristic"
    /\ results[1].malicious = TRUE

(***************************************************************************)
(* C6, as stated: a well-formed URL shorter than 100 characters with no    *)
(* risky keyword, no percent sign, no denylisted TLD in its host and a     *)
(* host that is no IPv4 literal gets malicious = false from the heuristic  *)
(* and the source "heuristic" in its record.                               *)
(***************************************************************************)
C6_PlainUrlIsClean ==
    \A k \in 1..Len(results) :
        LET url == results[k].qr_content
        IN  (/\ url \in WellFormed
             /\ Len(url) < 100
             /\ ~HasKeyword(url)
             /\ ~HasPercent(url)
             /\ ~HostHasTld(url)
             /\ ~HostIsIp(url))
            => (results[k].malicious = FALSE /\ results[k].source = "heuristic")

(***************************************************************************)
(* C7, as stated: a candidate that is no well-formed URL, such as free     *)
(* text with no scheme and no host, is found malicious by the heuristic.   *)
(***************************************************************************)
C7_FreeTextIsFlagged ==
    \A k \in 1..Len(results) :
        (results[k].source = "heuristic" /\ NoSchemeNoHost(results[k].qr_content))
            => results[k].malicious = TRUE

(***************************************************************************)
(* C7, amended: a candidate on which URL parsing raises (a netloc with an  *)
(* unmatched bracket) is found malicious by the heuristic; free text with  *)
(* no scheme and no host parses, and is found malicious exactly when it    *)
(* holds a risky keyword, holds "%" and is longer than 100, or is longer   *)
(* than 200.                                                               *)
(***************************************************************************)
C7_ParseErrorIsFlagged ==
    \A k \in 1..Len(results) :
        LET url == results[k].qr_content
        IN  results[k].source = "heuristic" =>
              /\ ~Parses(url) => results[k].malicious = TRUE
              /\ NoSchemeNoHost(url) =>
                    (results[k].malicious =
                        (HasKeyword(url) \/ (HasPercent(url) /\ Len(url) > 100) \/ Len(url) > 200))

C7_Witness ==
    /\ Len(results) = 1
    /\ results[1].qr_content = S_bracket
    /\ ~Parses(S_bracket)
    /\ results[1].source = "heuristic"
    /\ results[1].malicious = TRUE

(***************************************************************************)
(* C8, as stated: a URL whose host is four dot-separated runs of digits is *)
(* found malicious by the heuristic, whatever its scheme, port, user       *)
(* information, path and query are.                                        *)
(***************************************************************************)
C8_IpHostIsFlagged ==
    \A k \in 1..Len(results) :
        LET url == results[k].qr_content
        IN  (results[k].source = "heuristic" /\ Parses(url) /\ HostIsIp(url))
                => results[k].malicious = TRUE

(***************************************************************************)
(* C9, as stated: a URL that parses is found malicious by the heuristic if *)
(* and only if its host contains a denylisted TLD, its host is an IPv4     *)
(* literal, it contains a risky keyword in any letter case, it contains    *)
(* "%" and is longer than 100, or it is longer than 200.                   *)
(***************************************************************************)
C9_ExactlyTheFiveRules ==
    \A k \in 1..Len(results) :
        LET url == results[k].qr_content
        IN  (results[k].source = "heuristic" /\ Parses(url)) =>
                (results[k].malicious =
                    (\/ HostHasTld(url)
                     \/ HostIsIp(url)
                     \/ HasKeyword(url)
                     \/ (HasPercent(url) /\ Len(url) > 100)
                     \/ Len(url) > 200))

(***************************************************************************)
(* C10: whatever the symbols and the outcomes of the classifications are,  *)
(* the scan is never aborted, every iteration moves on to the next symbol, *)
(* and results holds one record per decoded symbol, in the order of the    *)
(* symbols, each with the page, the bounding box and the content of its    *)
(* symbol and one verdict: during the loop for the symbols handled so far  *)
(* whatever their verdicts were, at the return for all of them.            *)
(***************************************************************************)
C10_OneRecordPerSymbol ==
    /\ pc \in {"extract", "loop", "done"}
    /\ pc = "extract" => results = <<>>
    /\ pc = "loop" => (idx \in 1..(Len(qr_results) + 1) /\ Len(results) = idx - 1)
    /\ pc = "done" => Len(results) = Cardinality(DecodedPages)
    /\ Len(results) <= Cardinality(DecodedPages)
    /\ \A j \in 1..Len(results) :
          LET page == NthDecoded(j)
          IN  /\ results[j].page = page
              /\ results[j].qr_content = images[page].data
              /\ results[j].bbox = bbox_of(images[page].bbox.s)
              /\ results[j].malicious \in BOOLEAN
              /\ results[j].source \in {"heuristic", "VirusTotal", "Error"}

C10_Witness ==
    /\ pc = "done"
    /\ Len(images) = 2
    /\ Len(results) = 2
    /\ results[1].qr_content = S_bracket
    /\ ErrorVerdict(results[1])
    /\ results[2].malicious = TRUE /\ results[2].source = "VirusTotal"

\* a format is given and it is neither "json" nor "sqlite"
Unsupported == output_format.some /\ output_format.s \notin {F_json, F_sqlite}

PathHasDbExtension == lower(splitext_ext(output_path)) \in {E_db, E_sqlite}

(***************************************************************************)
(* C11: with a format given that is neither json nor sqlite, whatever the  *)
(* extension of the output path is, the writer never returns and never     *)
(* writes the file: it raises the unsupported-format error, which leaves   *)
(* QRCodeAgent.save_results for its caller.                                *)
(***************************************************************************)
C11_UnsupportedFormatFails ==
    Unsupported =>
        /\ fs = NoFile
        /\ wpc \in {"idle", "infer", "dispatch", "writer_raised", "caller_raised"}
        /\ wpc \in {"dispatch", "writer_raised", "caller_raised"} => format = output_format

C11_Witness ==
    /\ Unsupported
    /\ PathHasDbExtension
    /\ wpc = "caller_raised"
    /\ fs = NoFile

(***************************************************************************)
(* C12, as stated: once the writer has returned, the file holds the        *)
(* records in the format given, JSON for "json" and the database for       *)
(* "sqlite" whatever the output path is; the extension of the path decides *)
(* only when no format is given.                                           *)
(***************************************************************************)
C12_GivenFormatIsWritten ==
    wpc \in {"returned", "saved"} =>
        /\ fs.rows = results
        /\ output_format = Some(F_json) => fs.kind = "json"
        /\ output_format = Some(F_sqlite) => fs.kind = "sqlite"
        /\ output_format = None =>
              fs.kind = (IF PathHasDbExtension THEN "sqlite" ELSE "json")

====
